---- MODULE Spec2Model ----
(***************************************************************************)
(* Model of the receptionist agent of reference/solution.py: the static    *)
(* DEPARTMENTS table, the availability check _is_department_open and the   *)
(* five tool handlers registered by _setup_functions.                      *)
(*                                                                         *)
(* A Python str is a sequence of pieces.  A piece is a one-character       *)
(* string (where the code works on characters: lower(), title()) or an     *)
(* opaque literal.  Concatenation and f-strings are \o.  An Optional[str]  *)
(* is None or Some(str).                                                   *)
(***************************************************************************)
EXTENDS Integers, Sequences, FiniteSets, TLC

VARIABLES DEPARTMENTS, hour, pc, request, outcome

vars == <<DEPARTMENTS, hour, pc, request, outcome>>

HoursPerDay == 24

(***************************************************************************)
(* Python values                                                           *)
(***************************************************************************)
None == [none |-> TRUE]

Some(s) == [str |-> s]

IsNone(v) == "none" \in DOMAIN v

\* truth value of an Optional[str]: None and "" are falsy
Truthy(v) == ~IsNone(v) /\ Len(v.str) > 0

Lowers == <<"a", "b", "c", "d", "e", "f", "g", "h", "i", "j", "k", "l", "m",
            "n", "o", "p", "q", "r", "s", "t", "u", "v", "w", "x", "y", "z">>

Uppers == <<"A", "B", "C", "D", "E", "F", "G", "H", "I", "J", "K", "L", "M",
            "N", "O", "P", "Q", "R", "S", "T", "U", "V", "W", "X", "Y", "Z">>

IsIn(seq, c) == \E i \in DOMAIN seq : seq[i] = c

IndexIn(seq, c) == CHOOSE i \in DOMAIN seq : seq[i] = c

lower_ch(c) == IF IsIn(Uppers, c) THEN Lowers[IndexIn(Uppers, c)] ELSE c

upper_ch(c) == IF IsIn(Lowers, c) THEN Uppers[IndexIn(Lowers, c)] ELSE c

IsCased(c) == IsIn(Lowers, c) \/ IsIn(Uppers, c)

\* lower() left out: the argument is used as it was spelled
lower_skipped(s) == s

\* str.lower()
lower(s) == [i \in 1..Len(s) |-> lower_ch(s[i])]

\* str.title(): a cased character is upper-cased at the start of a word and
\* lower-cased after another cased character
title(s) ==
    [i \in 1..Len(s) |->
        IF i = 1 \/ ~IsCased(s[i - 1]) THEN upper_ch(s[i]) ELSE lower_ch(s[i])]

RECURSIVE join(_, _)
\* sep.join(items), items a sequence of str
join(sep, items) ==
    IF Len(items) = 0 THEN <<>>
    ELSE IF Len(items) = 1 THEN items[1]
    ELSE items[1] \o sep \o join(sep, Tail(items))

(***************************************************************************)
(* The department table                                                    *)
(***************************************************************************)
sales == <<"s", "a", "l", "e", "s">>

support == <<"s", "u", "p", "p", "o", "r", "t">>

billing == <<"b", "i", "l", "l", "i", "n", "g">>

returns == <<"r", "e", "t", "u", "r", "n", "s">>

DeptTable ==
    (sales :> [number |-> "+15551111111",
               description |-> <<"New purchases and pricing">>,
               hours |-> <<9, 18>>])
    @@ (support :> [number |-> "+15552222222",
                    description |-> <<"Technical assistance">>,
                    hours |-> <<8, 20>>])
    @@ (billing :> [number |-> "+15553333333",
                    description |-> <<"Payments and invoices">>,
                    hours |-> <<9, 17>>])
    @@ (returns :> [number |-> "+15554444444",
                    description |-> <<"Returns and exchanges">>,
                    hours |-> <<10, 16>>])

\* insertion order of the dict literal, the order of keys() and items()
DeptOrder == <<sales, support, billing, returns>>

\* DEPARTMENTS.keys() as a list
keys == SelectSeq(DeptOrder, LAMBDA k : k \in DOMAIN DEPARTMENTS)

\* DEPARTMENTS.get(department)
DictGet(department) ==
    IF department \in DOMAIN DEPARTMENTS THEN DEPARTMENTS[department] ELSE None

(***************************************************************************)
(* SwaigFunctionResult and what a call produces                            *)
(***************************************************************************)
SwaigFunctionResult(response, post_process) ==
    [response |-> response, post_process |-> post_process, action |-> <<>>]

update_global_data(result, data) ==
    [result EXCEPT !.action = Append(@, [set_global_data |-> data])]

connect(result, destination, final) ==
    [result EXCEPT
        !.action = Append(@, [connect |-> [to |-> destination, final |-> final]])]

Return(value) == [status |-> "returned", value |-> value]

Raise(exc) == [status |-> "raised", exc |-> exc]

\* datetime.now().hour
now_hour == hour

\* datetime.now().isoformat(), of which the model keeps the hour
isoformat(h) == <<"T", ToString(h), ":00">>

\* the close hour counted as open: start <= hour <= end
_is_department_open_inclusive(department) ==
    LET dept_info == DictGet(department) IN
    IF IsNone(dept_info) THEN <<FALSE, Some(<<"Unknown department">>)>>
    ELSE LET start == dept_info.hours[1]
             end == dept_info.hours[2]
         IN IF start <= now_hour /\ now_hour <= end
            THEN <<TRUE, None>>
            ELSE <<FALSE, Some(title(department)
                               \o <<" is open ", ToString(start), ":00 to ",
                                    ToString(end), ":00">>)>>

\* a department missing from the table taken for open
_is_department_open_missing_open(department) ==
    LET dept_info == DictGet(department) IN
    IF IsNone(dept_info) THEN <<TRUE, None>>
    ELSE LET start == dept_info.hours[1]
             end == dept_info.hours[2]
         IN IF start <= now_hour /\ now_hour < end
            THEN <<TRUE, None>>
            ELSE <<FALSE, Some(title(department)
                               \o <<" is open ", ToString(start), ":00 to ",
                                    ToString(end), ":00">>)>>

(***************************************************************************)
(* _is_department_open                                                     *)
(***************************************************************************)
_is_department_open(department) ==
    LET dept_info == DictGet(department) IN
    IF IsNone(dept_info) THEN <<FALSE, Some(<<"Unknown department">>)>>
    ELSE LET start == dept_info.hours[1]
             end == dept_info.hours[2]
         IN IF start <= now_hour /\ now_hour < end
            THEN <<TRUE, None>>
            ELSE <<FALSE, Some(title(department)
                               \o <<" is open ", ToString(start), ":00 to ",
                                    ToString(end), ":00">>)>>

(***************************************************************************)
(* The tool handlers of _setup_functions                                   *)
(***************************************************************************)
list_departments ==
    LET names == keys
        dept_list == [i \in 1..Len(names) |->
                        title(names[i]) \o <<": ">>
                        \o DEPARTMENTS[names[i]].description]
    IN Return(SwaigFunctionResult(
                <<"Our departments: ">> \o join(<<"; ">>, dept_list), FALSE))

check_availability(department_arg) ==
    LET department == lower(department_arg)
        checked == _is_department_open(department)
        is_open == checked[1]
        message == checked[2]
    IN IF is_open
       THEN LET dept_info == DictGet(department) IN
            IF IsNone(dept_info) THEN Raise("TypeError")
            ELSE LET end == dept_info.hours[2] IN
                 Return(SwaigFunctionResult(
                    title(department)
                    \o <<" is open until ", ToString(end), ":00. ",
                         "Would you like me to transfer you?">>, FALSE))
       ELSE IF IsNone(message) THEN Return(SwaigFunctionResult(message, FALSE))
       ELSE Return(SwaigFunctionResult(message.str, FALSE))

\* the availability check left out of transfer_to_department
transfer_to_department_ungated(department_arg) ==
    LET department == lower(department_arg)
        dept_info == DictGet(department)
    IN IF IsNone(dept_info)
       THEN LET dept_list == join(<<", ">>, keys) IN
            Return(SwaigFunctionResult(
                <<"Unknown department. Available: ">> \o dept_list, FALSE))
       ELSE Return(connect(
                SwaigFunctionResult(
                    <<"Connecting you to ">> \o department \o <<" now.">>, FALSE),
                dept_info.number, TRUE))

\* the connect of transfer_to_department not marked final
transfer_to_department_not_final(department_arg) ==
    LET department == lower(department_arg)
        dept_info == DictGet(department)
    IN IF IsNone(dept_info)
       THEN LET dept_list == join(<<", ">>, keys) IN
            Return(SwaigFunctionResult(
                <<"Unknown department. Available: ">> \o dept_list, FALSE))
       ELSE LET checked == _is_department_open(department)
                is_open == checked[1]
                message == checked[2]
            IN IF ~is_open
               THEN Return(SwaigFunctionResult(
                        <<"I'm sorry, ">>
                        \o (IF IsNone(message) THEN <<"None">> ELSE message.str)
                        \o <<". Would you like to leave a message ",
                             "or try a different department?">>, FALSE))
               ELSE Return(connect(
                        SwaigFunctionResult(
                            <<"Connecting you to ">> \o department \o <<" now.">>,
                            FALSE),
                        dept_info.number, FALSE))

transfer_to_department(department_arg) ==
    LET department == lower(department_arg)
        dept_info == DictGet(department)
    IN IF IsNone(dept_info)
       THEN LET dept_list == join(<<", ">>, keys) IN
            Return(SwaigFunctionResult(
                <<"Unknown department. Available: ">> \o dept_list, FALSE))
       ELSE LET checked == _is_department_open(department)
                is_open == checked[1]
                message == checked[2]
            IN IF ~is_open
               THEN Return(SwaigFunctionResult(
                        <<"I'm sorry, ">>
                        \o (IF IsNone(message) THEN <<"None">> ELSE message.str)
                        \o <<". Would you like to leave a message ",
                             "or try a different department?">>, FALSE))
               ELSE Return(connect(
                        SwaigFunctionResult(
                            <<"Connecting you to ">> \o department \o <<" now.">>,
                            FALSE),
                        dept_info.number, TRUE))

\* caller_name defaulted only when it is None, an empty name kept
transfer_with_context_none_only(department_arg, reason, caller_name, transfer_hour) ==
    LET department == lower(department_arg)
        checked == _is_department_open(department)
        is_open == checked[1]
        message == checked[2]
    IN IF ~is_open
       THEN Return(SwaigFunctionResult(
                <<"Sorry, ">>
                \o (IF IsNone(message) THEN <<"None">> ELSE message.str)
                \o <<". Would you like to leave a voicemail?">>, FALSE))
       ELSE IF department \notin DOMAIN DEPARTMENTS THEN Raise("KeyError")
       ELSE LET dept_info == DEPARTMENTS[department]
                context ==
                    [transfer_reason |-> reason,
                     caller_name |-> IF IsNone(caller_name) THEN <<"Unknown">>
                                     ELSE caller_name.str,
                     transfer_time |-> isoformat(transfer_hour),
                     from_receptionist |-> TRUE]
            IN Return(connect(
                    update_global_data(
                        SwaigFunctionResult(
                            <<"I'm transferring you to ">> \o department
                            \o <<". ", "I'll let them know about your ">>
                            \o reason \o <<".">>, TRUE),
                        context),
                    dept_info.number, TRUE))

\* the context attached to the declining result as well
transfer_with_context_always_patched(department_arg, reason, caller_name, transfer_hour) ==
    LET department == lower(department_arg)
        checked == _is_department_open(department)
        is_open == checked[1]
        message == checked[2]
        context ==
            [transfer_reason |-> reason,
             caller_name |-> IF Truthy(caller_name) THEN caller_name.str
                             ELSE <<"Unknown">>,
             transfer_time |-> isoformat(transfer_hour),
             from_receptionist |-> TRUE]
    IN IF ~is_open
       THEN Return(update_global_data(
                SwaigFunctionResult(
                    <<"Sorry, ">>
                    \o (IF IsNone(message) THEN <<"None">> ELSE message.str)
                    \o <<". Would you like to leave a voicemail?">>, FALSE),
                context))
       ELSE IF department \notin DOMAIN DEPARTMENTS THEN Raise("KeyError")
       ELSE LET dept_info == DEPARTMENTS[department] IN
            Return(connect(
                    update_global_data(
                        SwaigFunctionResult(
                            <<"I'm transferring you to ">> \o department
                            \o <<". ", "I'll let them know about your ">>
                            \o reason \o <<".">>, TRUE),
                        context),
                    dept_info.number, TRUE))

\* transfer_time is the second reading of the clock in the handler
transfer_with_context(department_arg, reason, caller_name, transfer_hour) ==
    LET department == lower(department_arg)
        checked == _is_department_open(department)
        is_open == checked[1]
        message == checked[2]
    IN IF ~is_open
       THEN Return(SwaigFunctionResult(
                <<"Sorry, ">>
                \o (IF IsNone(message) THEN <<"None">> ELSE message.str)
                \o <<". Would you like to leave a voicemail?">>, FALSE))
       ELSE IF department \notin DOMAIN DEPARTMENTS THEN Raise("KeyError")
       ELSE LET dept_info == DEPARTMENTS[department]
                context ==
                    [transfer_reason |-> reason,
                     caller_name |-> IF Truthy(caller_name) THEN caller_name.str
                                     ELSE <<"Unknown">>,
                     transfer_time |-> isoformat(transfer_hour),
                     from_receptionist |-> TRUE]
            IN Return(connect(
                    update_global_data(
                        SwaigFunctionResult(
                            <<"I'm transferring you to ">> \o department
                            \o <<". ", "I'll let them know about your ">>
                            \o reason \o <<".">>, TRUE),
                        context),
                    dept_info.number, TRUE))

\* leave_voicemail behind the availability gate of the transfer handlers
leave_voicemail_gated(department, message, callback_number) ==
    LET checked == _is_department_open(lower(department)) IN
    IF ~checked[1] /\ ~IsNone(checked[2])
    THEN Return(SwaigFunctionResult(
            <<"Sorry, ">> \o checked[2].str \o <<".">>, FALSE))
    ELSE Return(update_global_data(
            SwaigFunctionResult(
                <<"Your message for ">> \o department \o <<" has been recorded. ",
                  "They'll receive it when they open.">>, FALSE),
            [voicemail_department |-> department,
             voicemail_message |-> message,
             voicemail_callback |-> callback_number,
             voicemail_time |-> isoformat(now_hour)]))

leave_voicemail(department, message, callback_number) ==
    Return(update_global_data(
        SwaigFunctionResult(
            <<"Your message for ">> \o department \o <<" has been recorded. ",
              "They'll receive it when they open.">>, FALSE),
        [voicemail_department |-> department,
         voicemail_message |-> message,
         voicemail_callback |-> callback_number,
         voicemail_time |-> isoformat(now_hour)]))

(***************************************************************************)
(* The arguments the agent runtime calls the tools with                    *)
(***************************************************************************)
\* every letter-case spelling of s
CaseVariants(s) ==
    {[i \in 1..Len(s) |-> IF i \in U THEN upper_ch(s[i]) ELSE lower_ch(s[i])] :
        U \in SUBSET (1..Len(s))}

UnknownArgs ==
    {<<>>, <<"h", "r">>, <<"H", "R">>, <<"s", "a", "l", "e">>,
     <<"S", "a", "l", "e", "s", "s">>}

DepartmentArgs == UNION {CaseVariants(k) : k \in DOMAIN DeptTable} \cup UnknownArgs

ReasonArgs == {<<"a refund">>, <<"an upgrade">>}

CallerNameArgs == {None, Some(<<>>), Some(<<"Alice">>)}

MessageArgs == {<<"please call me back">>}

CallbackArgs == {None, Some(<<"+15550000000">>)}

Requests ==
    {[fn |-> "list_departments"]}
    \cup {[fn |-> "check_availability", department |-> d] : d \in DepartmentArgs}
    \cup {[fn |-> "transfer_to_department", department |-> d] : d \in DepartmentArgs}
    \cup {[fn |-> "transfer_with_context", department |-> d, reason |-> r,
           caller_name |-> c] :
            d \in DepartmentArgs, r \in ReasonArgs, c \in CallerNameArgs}
    \cup {[fn |-> "leave_voicemail", department |-> d, message |-> m,
           callback_number |-> c] :
            d \in DepartmentArgs, m \in MessageArgs, c \in CallbackArgs}

NoRequest == [fn |-> "none"]

NoOutcome == [status |-> "none"]

(***************************************************************************)
(* The state machine: the runtime dispatches one tool call at a time, the  *)
(* handler runs to completion and the runtime takes the result.            *)
(***************************************************************************)
Init ==
    /\ DEPARTMENTS = DeptTable
    /\ hour \in 0..(HoursPerDay - 1)
    /\ pc = "idle"
    /\ request = NoRequest
    /\ outcome = NoOutcome

\* the wall clock moves on between calls
Tick ==
    /\ pc = "idle"
    /\ hour' = (hour + 1) % HoursPerDay
    /\ UNCHANGED <<DEPARTMENTS, pc, request, outcome>>

Invoke ==
    /\ pc = "idle"
    /\ \E r \in Requests : request' = r
    /\ pc' = "called"
    /\ UNCHANGED <<DEPARTMENTS, hour, outcome>>

CallListDepartments ==
    /\ pc = "called"
    /\ request.fn = "list_departments"
    /\ outcome' = list_departments
    /\ pc' = "returned"
    /\ UNCHANGED <<DEPARTMENTS, hour, request>>

CallCheckAvailability ==
    /\ pc = "called"
    /\ request.fn = "check_availability"
    /\ outcome' = check_availability(request.department)
    /\ pc' = "returned"
    /\ UNCHANGED <<DEPARTMENTS, hour, request>>

CallTransferToDepartment ==
    /\ pc = "called"
    /\ request.fn = "transfer_to_department"
    /\ outcome' = transfer_to_department(request.department)
    /\ pc' = "returned"
    /\ UNCHANGED <<DEPARTMENTS, hour, request>>

\* the clock may pass the hour between the availability check and the
\* reading that stamps the context
CallTransferWithContext ==
    /\ pc = "called"
    /\ request.fn = "transfer_with_context"
    /\ \E transfer_hour \in {hour, (hour + 1) % HoursPerDay} :
          outcome' = transfer_with_context(request.department, request.reason,
                                           request.caller_name, transfer_hour)
    /\ pc' = "returned"
    /\ UNCHANGED <<DEPARTMENTS, hour, request>>

\* leave_voicemail keeping an entry in the table for the department it is
\* called with
CallLeaveVoicemail_registering ==
    /\ pc = "called"
    /\ request.fn = "leave_voicemail"
    /\ outcome' = leave_voicemail(request.department, request.message,
                                  request.callback_number)
    /\ DEPARTMENTS' =
          IF request.department \in DOMAIN DEPARTMENTS THEN DEPARTMENTS
          ELSE (request.department :>
                    [number |-> "", description |-> request.message,
                     hours |-> <<0, 0>>]) @@ DEPARTMENTS
    /\ pc' = "returned"
    /\ UNCHANGED <<hour, request>>

CallLeaveVoicemail ==
    /\ pc = "called"
    /\ request.fn = "leave_voicemail"
    /\ outcome' = leave_voicemail(request.department, request.message,
                                  request.callback_number)
    /\ pc' = "returned"
    /\ UNCHANGED <<DEPARTMENTS, hour, request>>

\* the runtime takes the result (or the exception) of the call
Deliver ==
    /\ pc = "returned"
    /\ pc' = "idle"
    /\ request' = NoRequest
    /\ outcome' = NoOutcome
    /\ UNCHANGED <<DEPARTMENTS, hour>>

Next ==
    \/ Tick
    \/ Invoke
    \/ CallListDepartments
    \/ CallCheckAvailability
    \/ CallTransferToDepartment
    \/ CallTransferWithContext
    \/ CallLeaveVoicemail
    \/ Deliver

Spec == Init /\ [][Next]_vars

TypeOK ==
    /\ pc \in {"idle", "called", "returned"}
    /\ hour \in 0..(HoursPerDay - 1)
    /\ (pc = "idle") <=> (request = NoRequest)
    /\ (pc = "returned") <=> (outcome # NoOutcome)

(***************************************************************************)
(* The availability check on its own, over every configured hour range of  *)
(* one department (the table does not validate its ranges)                 *)
(***************************************************************************)
HourRanges == (0..(HoursPerDay - 1)) \X (0..(HoursPerDay - 1))

InitHours ==
    /\ DEPARTMENTS \in {[DeptTable EXCEPT ![d].hours = hrs] :
                            d \in DOMAIN DeptTable, hrs \in HourRanges}
    /\ hour \in 0..(HoursPerDay - 1)
    /\ pc = "idle"
    /\ request = NoRequest
    /\ outcome = NoOutcome

CallIsDepartmentOpen ==
    /\ pc = "idle"
    /\ \E d \in DOMAIN DeptTable \cup {<<"h", "r">>} :
          /\ request' = [fn |-> "_is_department_open", department |-> d]
          /\ outcome' = Return(_is_department_open(d))
    /\ pc' = "returned"
    /\ UNCHANGED <<DEPARTMENTS, hour>>

NextHours ==
    \/ Tick
    \/ CallIsDepartmentOpen
    \/ Deliver

SpecHours == InitHours /\ [][NextHours]_vars

(***************************************************************************)
(* Vocabulary of the properties                                            *)
(***************************************************************************)
Returned(fn) == pc = "returned" /\ request.fn = fn

\* d spells the id k in some letter case
Spells(d, k) == Len(d) = Len(k) /\ \A i \in 1..Len(k) : lower_ch(d[i]) = k[i]

IsKnown(d) == \E k \in DOMAIN DeptTable : Spells(d, k)

IdOf(d) == CHOOSE k \in DOMAIN DeptTable : Spells(d, k)

WithinHours(k, h) == h \in (DEPARTMENTS[k].hours[1])..(DEPARTMENTS[k].hours[2] - 1)

\* the availability check is true for the argument d at the hour h
Available(d, h) == IsKnown(d) /\ WithinHours(IdOf(d), h)

Succeeded == outcome.status = "returned"

Connects ==
    {outcome.value.action[i].connect :
        i \in {j \in DOMAIN outcome.value.action :
                    "connect" \in DOMAIN outcome.value.action[j]}}

Patches ==
    {outcome.value.action[i].set_global_data :
        i \in {j \in DOMAIN outcome.value.action :
                    "set_global_data" \in DOMAIN outcome.value.action[j]}}

Contains(text, part) ==
    \E i \in 0..(Len(text) - Len(part)) : SubSeq(text, i + 1, i + Len(part)) = part

Timestamps == {isoformat(h) : h \in 0..(HoursPerDay - 1)}

LookupHandlers == {"check_availability", "transfer_to_department", "transfer_with_context"}

(***************************************************************************)
(* Properties                                                              *)
(***************************************************************************)

\* C1: transfer_to_department returns no connect directive when the
\* lower-cased department is unknown or the clock hour is outside
\* [open_hour, close_hour).
C1_NoConnectWhenUnavailable ==
    (Returned("transfer_to_department") /\ ~Available(request.department, hour))
        => (Succeeded /\ Connects = {})

\* C1 witness: 'returns' asked for at hour 20 gets the closed message with
\* its hours 10:00 to 16:00 and no connect.
C1_Witness ==
    /\ Returned("transfer_to_department")
    /\ request.department = returns
    /\ hour = 20
    /\ Succeeded
    /\ Connects = {}
    /\ Contains(outcome.value.response, <<"10", ":00 to ", "16", ":00">>)

\* C2: for a known department _is_department_open answers open exactly when
\* open_hour <= hour < close_hour: open at open_hour of a proper range, closed
\* at close_hour, and closed at every hour when open_hour >= close_hour.
C2_OpenIffWithinHours ==
    (Returned("_is_department_open") /\ request.department \in DOMAIN DEPARTMENTS)
        => LET open_hour == DEPARTMENTS[request.department].hours[1]
               close_hour == DEPARTMENTS[request.department].hours[2]
               is_open == outcome.value[1]
           IN /\ is_open <=> hour \in open_hour..(close_hour - 1)
              /\ (hour = open_hour /\ open_hour < close_hour) => is_open
              /\ hour = close_hour => ~is_open
              /\ open_hour >= close_hour => ~is_open

\* C2 witness: the check answered closed at the close hour of a proper range.
C2_Witness ==
    /\ Returned("_is_department_open")
    /\ request.department \in DOMAIN DEPARTMENTS
    /\ DEPARTMENTS[request.department].hours[1] < DEPARTMENTS[request.department].hours[2]
    /\ hour = DEPARTMENTS[request.department].hours[2]
    /\ outcome.value[1] = FALSE

\* C3: for a department outside the configured set, check_availability,
\* transfer_to_department and transfer_with_context answer with a response
\* that lists the configured department ids.
C3_UnknownListsIds ==
    (pc = "returned" /\ request.fn \in LookupHandlers /\ ~IsKnown(request.department))
        => (Succeeded /\ \A k \in DOMAIN DeptTable : Contains(outcome.value.response, k))

\* C4: transfer_with_context for a known, open department returns the
\* global-data patch followed by the connect directive; the patch has exactly
\* transfer_reason, caller_name ("Unknown" when omitted or empty),
\* transfer_time and from_receptionist = true; and it never connects without
\* that patch.
C4_ContextTravelsWithConnect ==
    Returned("transfer_with_context") =>
        /\ (Available(request.department, hour) =>
                (Succeeded /\ Cardinality(Connects) = 1
                    /\ Len(outcome.value.action) = 2))
        /\ ((Succeeded /\ Connects # {}) =>
                /\ "set_global_data" \in DOMAIN outcome.value.action[1]
                /\ LET context == outcome.value.action[1].set_global_data IN
                   /\ DOMAIN context = {"transfer_reason", "caller_name",
                                        "transfer_time", "from_receptionist"}
                   /\ context.transfer_reason = request.reason
                   /\ context.caller_name =
                          (IF request.caller_name \in {None, Some(<<>>)}
                           THEN <<"Unknown">> ELSE request.caller_name.str)
                   /\ context.transfer_time \in Timestamps
                   /\ context.from_receptionist = TRUE)

\* C4 witness: a transfer with an empty caller name went through.
C4_Witness ==
    /\ Returned("transfer_with_context")
    /\ Available(request.department, hour)
    /\ request.caller_name = Some(<<>>)
    /\ Succeeded
    /\ Connects # {}
    /\ Patches # {}

\* C5: leave_voicemail always returns the confirmation with a global-data
\* patch of voicemail_department, voicemail_message, voicemail_callback and
\* voicemail_time, whatever the department string, the hour and the callback
\* number; it never answers with the unknown-department or closed outcome.
C5_VoicemailAlwaysSucceeds ==
    Returned("leave_voicemail") =>
        /\ Succeeded
        /\ outcome.value.response =
              <<"Your message for ">> \o request.department
              \o <<" has been recorded. ", "They'll receive it when they open.">>
        /\ ~Contains(outcome.value.response, <<"Unknown department">>)
        /\ ~Contains(outcome.value.response, <<" is open ">>)
        /\ Connects = {}
        /\ Cardinality(Patches) = 1
        /\ \A patch \in Patches :
              /\ DOMAIN patch = {"voicemail_department", "voicemail_message",
                                 "voicemail_callback", "voicemail_time"}
              /\ patch.voicemail_department = request.department
              /\ patch.voicemail_message = request.message
              /\ patch.voicemail_callback = request.callback_number
              /\ patch.voicemail_time \in Timestamps

\* C5 witness: a voicemail without callback number for a known department in
\* another letter case, left while that department is closed.
C5_Witness ==
    /\ Returned("leave_voicemail")
    /\ IsKnown(request.department)
    /\ request.department # IdOf(request.department)
    /\ ~Available(request.department, hour)
    /\ request.callback_number = None
    /\ Succeeded
    /\ Patches # {}

\* C6: every invocation of every handler returns a result; none ends in an
\* exception.
C6_HandlersTotal == pc = "returned" => outcome.status = "returned"

\* C6 witness: transfer_with_context got past the direct table index, for a
\* known open department with caller_name omitted.
C6_Witness ==
    /\ Returned("transfer_with_context")
    /\ Available(request.department, hour)
    /\ request.caller_name = None
    /\ Succeeded
    /\ Connects # {}

\* C7: for every letter-case spelling of a known id, check_availability,
\* transfer_to_department and transfer_with_context produce at the same hour
\* the outcome they produce for the lower-case id.
C7_CaseInsensitive ==
    (pc = "returned" /\ request.fn \in LookupHandlers /\ IsKnown(request.department))
        => LET k == IdOf(request.department) IN
           CASE request.fn = "check_availability" -> outcome = check_availability(k)
             [] request.fn = "transfer_to_department" ->
                    outcome = transfer_to_department(k)
             [] request.fn = "transfer_with_context" ->
                    \E transfer_hour \in {hour, (hour + 1) % HoursPerDay} :
                        outcome = transfer_with_context(k, request.reason,
                                        request.caller_name, transfer_hour)

\* C7 witness: a transfer asked for in mixed case was connected.
C7_Witness ==
    /\ Returned("transfer_to_department")
    /\ request.department = <<"S", "u", "P", "p", "O", "r", "T">>
    /\ Succeeded
    /\ Connects = {[to |-> DeptTable[support].number, final |-> TRUE]}

\* C8: the department table keeps its initial ids, numbers, descriptions and
\* hours through every sequence of handler invocations.
C8_TableReadOnly == DEPARTMENTS = DeptTable

\* C8 witness: a handler has run and the table is as it started.
C8_Witness ==
    /\ Returned("leave_voicemail")
    /\ IsKnown(request.department)
    /\ Succeeded
    /\ DOMAIN DEPARTMENTS = {sales, support, billing, returns}

\* C9: transfer_to_department and transfer_with_context, called for a known
\* department that is open, connect to the number configured for that
\* department, marked final.
C9_ConnectsToRequestedNumber ==
    (pc = "returned"
        /\ request.fn \in {"transfer_to_department", "transfer_with_context"}
        /\ Available(request.department, hour))
        => /\ Succeeded
           /\ Connects = {[to |-> DeptTable[IdOf(request.department)].number,
                           final |-> TRUE]}

\* C9 witness: billing was open and the call was connected to its number.
C9_Witness ==
    /\ Returned("transfer_with_context")
    /\ IsKnown(request.department)
    /\ IdOf(request.department) = billing
    /\ Succeeded
    /\ Connects = {[to |-> "+15553333333", final |-> TRUE]}

\* C10: transfer_with_context for an unknown or closed department returns
\* neither a connect directive nor a global-data patch.
C10_NoContextWithoutTransfer ==
    (Returned("transfer_with_context") /\ ~Available(request.department, hour))
        => (Succeeded /\ Connects = {} /\ Patches = {})

\* C10 witness: a transfer with context to a closed department was declined.
C10_Witness ==
    /\ Returned("transfer_with_context")
    /\ IsKnown(request.department)
    /\ ~Available(request.department, hour)
    /\ Succeeded
    /\ outcome.value.action = <<>>
    /\ Contains(outcome.value.response, <<". Would you like to leave a voicemail?">>)

====
